---------------------------- MODULE Spec2Model ----------------------------
(***************************************************************************)
(* A model of Bootie.Model (src/model.js): the schema-driven attribute     *)
(* builder `buildAttributes` and the operations that use it                *)
(* (`setFromRequest`, `render`).                                           *)
(*                                                                         *)
(* JavaScript values are tagged records, so that values of different       *)
(* JavaScript types can be compared:                                       *)
(*   undefined, null, NaN, booleans, numbers, strings, arrays, plain       *)
(*   objects and Date objects.                                             *)
(* A number is held in tenths (the JavaScript number 2.5 is Num(25)), so   *)
(* that parseInt and parseFloat are distinct, computed conversions.        *)
(* A plain object is a function from its own keys to values; a key that    *)
(* holds `undefined` is still a key of the object.                         *)
(***************************************************************************)
EXTENDS Integers, Sequences, FiniteSets, TLC

VARIABLES
    schema,        \* buildAttributes argument `schema`
    defaults,      \* buildAttributes argument `defaults`
    json,          \* buildAttributes argument `json`
    attrs,         \* buildAttributes argument `attrs`
    ignoredAttrs,  \* buildAttributes argument `ignoredAttrs`
    obj,           \* the tree returned by the last buildAttributes call
    obj2,          \* the tree returned when `obj` is built again
    attributes,    \* this.attributes of the model instance
    initialAttributes, \* this.attributes as it was after construction
    modelClass,    \* the model definition: schema, defaults, masks
    requestAttributes,   \* this.requestAttributes
    changedFromRequest,  \* this.changedFromRequest
    previousFromRequest, \* this.previousFromRequest
    response,      \* the value last returned by render()
    calls,         \* number of setFromRequest calls so far
    pc,            \* which operation ran last
    stored,        \* `locked` of the stored document
    locked,        \* `locked` of each caller's model instance
    lockPc,        \* each caller's position in lock() / unlock()
    outcome,       \* how each caller's last lock() settled
    resolvedLocks  \* lock() calls resolved since the last stored unlock

vars == <<schema, defaults, json, attrs, ignoredAttrs, obj, obj2,
          attributes, initialAttributes, modelClass, requestAttributes,
          changedFromRequest, previousFromRequest, response, calls, pc,
          stored, locked, lockPc, outcome, resolvedLocks>>

\* The state of the model instance
instanceVars == <<attributes, initialAttributes, modelClass, requestAttributes,
                  changedFromRequest, previousFromRequest, response, calls>>

\* The arguments and results of direct buildAttributes calls
callVars == <<schema, defaults, json, attrs, ignoredAttrs, obj, obj2>>

\* The stored document and the instances that lock it
lockVars == <<stored, locked, lockPc, outcome, resolvedLocks>>

-----------------------------------------------------------------------------
(* JavaScript values *)

Undef == [t |-> "undef"]
Null == [t |-> "null"]
NaN == [t |-> "nan"]
Bool(b) == [t |-> "bool", v |-> b]
Num(tenths) == [t |-> "num", v |-> tenths]
Whole(n) == Num(10 * n)
Str(s) == [t |-> "str", v |-> s]
Arr(s) == [t |-> "arr", v |-> s]
Obj(f) == [t |-> "obj", v |-> f]
DateObj(ms) == [t |-> "date", v |-> ms]

EmptyMap == [k \in {} |-> Undef]
EmptyObj == Obj(EmptyMap)
EmptyArr == Arr(<<>>)

\* The characters of the string literals the model uses.
Chars(s) ==
    CASE s = "" -> <<>>
      [] s = "abc" -> <<"a", "b", "c">>
      [] s = "-5" -> <<"-", "5">>
      [] s = "12" -> <<"1", "2">>
      [] s = "2.5" -> <<"2", ".", "5">>
      [] s = "-2.5" -> <<"-", "2", ".", "5">>
      [] s = " 7" -> <<" ", "7">>
      [] s = "7x" -> <<"7", "x">>
      [] s = "NYC" -> <<"N", "Y", "C">>
      [] s = "LA" -> <<"L", "A">>
      [] s = "u1" -> <<"u", "1">>
      [] s = "u2" -> <<"u", "2">>
      [] s = "2020-01-02" -> <<"2", "0", "2", "0", "-", "0", "1", "-", "0", "2">>
      [] OTHER -> <<s>>

-----------------------------------------------------------------------------
(* lodash predicates and accessors used by buildAttributes *)

IsUndefined(x) == x.t = "undef"
IsNull(x) == x.t = "null"
IsBoolean(x) == x.t = "bool"
IsString(x) == x.t = "str"
IsNumber(x) == x.t \in {"num", "nan"}
IsNaN(x) == x.t = "nan"
IsArray(x) == x.t = "arr"
IsDate(x) == x.t = "date"
IsObject(x) == x.t \in {"obj", "arr", "date"}

\* _.isEmpty: arrays and strings by length, objects by own keys, anything
\* else (null, undefined, numbers, booleans, dates) is empty.
IsEmpty(x) ==
    CASE x.t = "arr" -> Len(x.v) = 0
      [] x.t = "str" -> Len(Chars(x.v)) = 0
      [] x.t = "obj" -> DOMAIN x.v = {}
      [] OTHER -> TRUE

\* x[key] for a string key that is neither an index nor "length".
Get(x, key) ==
    IF x.t = "obj" /\ key \in DOMAIN x.v THEN x.v[key] ELSE Undef

\* Truthiness with the empty array taken for falsy
TruthyEmptyArrayFalsy(x) ==
    CASE x.t \in {"undef", "null", "nan"} -> FALSE
      [] x.t = "bool" -> x.v
      [] x.t = "num" -> x.v # 0
      [] x.t = "str" -> Len(Chars(x.v)) # 0
      [] x.t = "arr" -> Len(x.v) # 0
      [] OTHER -> TRUE

\* JavaScript truthiness, as `||` tests it.
Truthy(x) ==
    CASE x.t \in {"undef", "null", "nan"} -> FALSE
      [] x.t = "bool" -> x.v
      [] x.t = "num" -> x.v # 0
      [] x.t = "str" -> Len(Chars(x.v)) # 0
      [] OTHER -> TRUE

-----------------------------------------------------------------------------
(* Number parsing *)

Digits == {"0", "1", "2", "3", "4", "5", "6", "7", "8", "9"}

DigitVal(c) ==
    CASE c = "0" -> 0 [] c = "1" -> 1 [] c = "2" -> 2 [] c = "3" -> 3
      [] c = "4" -> 4 [] c = "5" -> 5 [] c = "6" -> 6 [] c = "7" -> 7
      [] c = "8" -> 8 [] c = "9" -> 9

\* The longest prefix of cs made of digits.
LeadingDigits(cs) ==
    LET n == CHOOSE m \in 0..Len(cs) :
                 /\ \A i \in 1..m : cs[i] \in Digits
                 /\ (m = Len(cs) \/ cs[m + 1] \notin Digits)
    IN SubSeq(cs, 1, n)

RECURSIVE DigitsValue(_)
DigitsValue(ds) ==
    IF ds = <<>> THEN 0
    ELSE 10 * DigitsValue(SubSeq(ds, 1, Len(ds) - 1)) + DigitVal(ds[Len(ds)])

RECURSIVE StripLeadingSpace(_)
StripLeadingSpace(cs) ==
    IF cs # <<>> /\ cs[1] = " " THEN StripLeadingSpace(Tail(cs)) ELSE cs

Trunc(tenths) ==
    IF tenths >= 0 THEN 10 * (tenths \div 10) ELSE -(10 * ((-tenths) \div 10))

\* parseInt of a character sequence: optional sign, then decimal digits.
ParseIntChars(cs0) ==
    LET cs == StripLeadingSpace(cs0)
        signed == cs # <<>> /\ cs[1] \in {"-", "+"}
        neg == cs # <<>> /\ cs[1] = "-"
        rest == IF signed THEN Tail(cs) ELSE cs
        ds == LeadingDigits(rest)
    IN IF ds = <<>> THEN NaN
       ELSE Num((IF neg THEN -1 ELSE 1) * 10 * DigitsValue(ds))

\* parseFloat of a character sequence: sign, digits, "." and digits.  The
\* result is held in tenths: the strings of the model have at most one
\* fractional digit.
ParseFloatChars(cs0) ==
    LET cs == StripLeadingSpace(cs0)
        signed == cs # <<>> /\ cs[1] \in {"-", "+"}
        neg == cs # <<>> /\ cs[1] = "-"
        rest == IF signed THEN Tail(cs) ELSE cs
        ids == LeadingDigits(rest)
        after == SubSeq(rest, Len(ids) + 1, Len(rest))
        fds == IF after # <<>> /\ after[1] = "." THEN LeadingDigits(Tail(after))
               ELSE <<>>
        mag == 10 * DigitsValue(ids) + (IF fds = <<>> THEN 0 ELSE DigitVal(fds[1]))
    IN IF ids = <<>> /\ fds = <<>> THEN NaN
       ELSE Num((IF neg THEN -1 ELSE 1) * mag)

\* _.parseInt(value): parseInt of String(value).  String(array) starts with
\* String(first element) (empty for null and undefined) followed by ",".
RECURSIVE ParseInt(_)
ParseInt(x) ==
    CASE x.t = "num" -> Num(Trunc(x.v))
      [] x.t = "str" -> ParseIntChars(Chars(x.v))
      [] x.t = "arr" -> IF x.v = <<>> THEN NaN ELSE ParseInt(x.v[1])
      [] OTHER -> NaN

\* _.parseFloat(value): parseFloat of String(value).
RECURSIVE ParseFloat(_)
ParseFloat(x) ==
    CASE x.t = "num" -> x
      [] x.t = "str" -> ParseFloatChars(Chars(x.v))
      [] x.t = "arr" -> IF x.v = <<>> THEN NaN ELSE ParseFloat(x.v[1])
      [] OTHER -> NaN

\* The parsed number as it is, negative or not
Unclamped(n) == n

\* Math.max(n, 0)
MaxZero(n) == IF n.v < 0 THEN Num(0) ELSE n

\* _.isValidISO8601String: a string that starts with a calendar date
\* YYYY-MM-DD.
IsValidISO8601String(x) ==
    /\ IsString(x)
    /\ LET cs == Chars(x.v)
       IN /\ Len(cs) >= 10
          /\ \A i \in {1, 2, 3, 4, 6, 7, 9, 10} : cs[i] \in Digits
          /\ cs[5] = "-"
          /\ cs[8] = "-"

-----------------------------------------------------------------------------
(* buildAttributes (src/model.js 136-316) *)

\* `_.isObject(x) ? x[key] : null` (lines 140-143)
KeyVal(x, key) == IF IsObject(x) THEN Get(x, key) ELSE Null

\* `ignoredAttrsVal === true` (line 146)
IsIgnored(ignoredAttrsVal) == ignoredAttrsVal = Bool(TRUE)

\* `!_.isUndefined(attrsVal) ? attrsVal :
\*    (!_.isUndefined(defaultsVal) ? defaultsVal : zero)`
Fallback(attrsVal, defaultsVal, zero) ==
    IF ~IsUndefined(attrsVal) THEN attrsVal
    ELSE IF ~IsUndefined(defaultsVal) THEN defaultsVal
    ELSE zero

\* `!_.isUndefined(defaultsVal) ? defaultsVal : zero`
ResetToDefault(defaultsVal, zero) ==
    IF ~IsUndefined(defaultsVal) THEN defaultsVal ELSE zero

\* A schema value of `[]` or `{}` (line 152)
IsEmptyContainer(val) == IsObject(val) /\ IsEmpty(val)

\* The empty-container branch (lines 152-157)
EmptyContainerValue(val, attrsVal, defaultsVal) ==
    Fallback(attrsVal, defaultsVal, EmptyObj)

\* An array of strings/numbers/booleans/dates/ids, or of `{}` (line 177)
IsScalarArray(val) == IsString(val.v[1]) \/ IsEmpty(val.v[1])

\* `jsonVal || attrsVal` (line 178)
ScalarArrayValue(jsonVal, attrsVal) ==
    IF Truthy(jsonVal) THEN jsonVal ELSE attrsVal

\* The order in which the own keys of the model's plain objects are visited
KeyOrder == <<"a", "b", "c", "d">>

\* The values `_.each(jsonVal, ...)` visits, in order (line 193): the
\* elements of an array, the characters of a string, the values of a plain
\* object.
EachItems(jsonVal) ==
    CASE jsonVal.t = "arr" -> jsonVal.v
      [] jsonVal.t = "str" ->
           [i \in 1..Len(Chars(jsonVal.v)) |-> Str(Chars(jsonVal.v)[i])]
      [] jsonVal.t = "obj" ->
           LET ks == SelectSeq(KeyOrder, LAMBDA k : k \in DOMAIN jsonVal.v)
           IN [i \in 1..Len(ks) |-> jsonVal.v[ks[i]]]
      [] OTHER -> <<>>

\* The leaf dispatch (lines 226-311): val is a type tag.
LeafValue(val, jsonVal, attrsVal, defaultsVal) ==
    CASE val.v \in {"integer", "uinteger"} ->
           IF jsonVal = Str("") THEN ResetToDefault(defaultsVal, Whole(0))
           ELSE LET intNumber == ParseInt(jsonVal)
                IN IF IsNaN(intNumber)
                   THEN Fallback(attrsVal, defaultsVal, Whole(0))
                   ELSE IF val.v = "uinteger" THEN MaxZero(intNumber)
                        ELSE intNumber
      [] val.v \in {"float", "ufloat"} ->
           IF jsonVal = Str("") THEN ResetToDefault(defaultsVal, Num(0))
           ELSE LET floatNumber == ParseFloat(jsonVal)
                IN IF IsNaN(floatNumber)
                   THEN Fallback(attrsVal, defaultsVal, Num(0))
                   ELSE IF val.v = "ufloat" THEN MaxZero(floatNumber)
                        ELSE floatNumber
      [] val.v = "boolean" ->
           IF ~IsBoolean(jsonVal) THEN Fallback(attrsVal, defaultsVal, Bool(FALSE))
           ELSE jsonVal
      [] val.v \in {"id", "string"} ->
           IF ~IsString(jsonVal) /\ ~IsNull(jsonVal)
           THEN Fallback(attrsVal, defaultsVal, Null)
           ELSE jsonVal
      [] val.v = "timestamp" ->
           IF jsonVal = Str("") THEN ResetToDefault(defaultsVal, Null)
           ELSE IF ~IsNumber(jsonVal) /\ ~IsNull(jsonVal)
                THEN Fallback(attrsVal, defaultsVal, Null)
                ELSE jsonVal
      [] val.v = "date" ->
           IF ~IsValidISO8601String(jsonVal) /\ ~IsDate(jsonVal) /\ ~IsNull(jsonVal)
           THEN Fallback(attrsVal, defaultsVal, Null)
           ELSE jsonVal
      [] OTHER -> jsonVal

RECURSIVE BuildAttributes(_, _, _, _, _)

\* The loop with the results collected in reverse order
BuildEachReversed(val0, defaultsVal, jsonVal, attrsVal, ignoredAttrsVal) ==
    LET items == EachItems(jsonVal)
    IN Arr([i \in 1..Len(items) |->
              BuildAttributes(val0, defaultsVal, items[Len(items) + 1 - i],
                              attrsVal, ignoredAttrsVal)])

\* The loop started one element too late
BuildEachSkipFirst(val0, defaultsVal, jsonVal, attrsVal, ignoredAttrsVal) ==
    LET items == Tail(EachItems(jsonVal))
    IN Arr([i \in 1..Len(items) |->
              BuildAttributes(val0, defaultsVal, items[i], attrsVal,
                              ignoredAttrsVal)])

\* The array-of-objects loop (lines 192-201)
BuildEach(val0, defaultsVal, jsonVal, attrsVal, ignoredAttrsVal) ==
    LET items == EachItems(jsonVal)
    IN Arr([i \in 1..Len(items) |->
              BuildAttributes(val0, defaultsVal, items[i], attrsVal,
                              ignoredAttrsVal)])

\* The array branch (lines 163-201)
ArrayValue(val, defaultsVal, jsonVal, attrsVal, ignoredAttrsVal) ==
    IF IsNull(jsonVal) \/ IsUndefined(jsonVal)
    THEN Fallback(attrsVal, defaultsVal, EmptyArr)
    ELSE IF IsScalarArray(val) THEN ScalarArrayValue(jsonVal, attrsVal)
    ELSE IF IsEmpty(jsonVal) THEN ResetToDefault(defaultsVal, EmptyArr)
    ELSE BuildEach(val.v[1], defaultsVal, jsonVal, attrsVal, ignoredAttrsVal)

\* The nested-object branch (lines 202-225)
ObjectValue(val, defaultsVal, jsonVal, attrsVal, ignoredAttrsVal) ==
    IF IsNull(jsonVal) \/ IsUndefined(jsonVal)
    THEN Fallback(attrsVal, defaultsVal, EmptyObj)
    ELSE IF IsEmpty(jsonVal) THEN ResetToDefault(defaultsVal, EmptyObj)
    ELSE BuildAttributes(val, defaultsVal, jsonVal, attrsVal, ignoredAttrsVal)

\* The empty-container branch returning without assigning
AssignsButEmptyContainer(val) ==
    IsString(val) \/ (IsObject(val) /\ ~IsEmpty(val))

\* Whether the callback assigns obj[key] for a schema value that is not
\* ignored: an array, an object or a string (lines 152, 163, 202, 226).
Assigns(val) == IsObject(val) \/ IsString(val)

\* The value the callback of `_.each(schema, ...)` assigns to obj[key]
KeyValue(val, defaultsVal, jsonVal, attrsVal, ignoredAttrsVal) ==
    IF IsEmptyContainer(val) THEN EmptyContainerValue(val, attrsVal, defaultsVal)
    ELSE IF IsArray(val)
         THEN ArrayValue(val, defaultsVal, jsonVal, attrsVal, ignoredAttrsVal)
    ELSE IF IsObject(val)
         THEN ObjectValue(val, defaultsVal, jsonVal, attrsVal, ignoredAttrsVal)
    ELSE LeafValue(val, jsonVal, attrsVal, defaultsVal)

\* The keys of the returned object: the schema keys whose callback assigns
SchemaKeys(sch) == IF sch.t = "obj" THEN DOMAIN sch.v ELSE {}

\* The keys with the mask never consulted
EmittedKeysUnmasked(sch, ignored) ==
    {key \in SchemaKeys(sch) : Assigns(sch.v[key])}

EmittedKeys(sch, ignored) ==
    {key \in SchemaKeys(sch) :
        ~IsIgnored(KeyVal(ignored, key)) /\ Assigns(sch.v[key])}

BuildAttributes(sch, dflts, jsn, atts, ignored) ==
    Obj([key \in EmittedKeys(sch, ignored) |->
           KeyValue(sch.v[key], KeyVal(dflts, key), KeyVal(jsn, key),
                    KeyVal(atts, key), KeyVal(ignored, key))])

-----------------------------------------------------------------------------
(* The inputs buildAttributes is called with *)

\* Longest array of objects in a json value
MaxItems == 2

Tags == {"integer", "uinteger", "float", "ufloat", "boolean", "id",
         "string", "timestamp", "date", "model"}

\* The nested schema of the object and array-of-objects nodes
ElemSchema == Obj([c |-> Str("string"), d |-> Str("integer")])

LeafNodes == {Str(tag) : tag \in Tags}

ContainerNodes ==
    {EmptyArr, EmptyObj, Arr(<<Str("string")>>), Arr(<<EmptyObj>>),
     Arr(<<ElemSchema>>), ElemSchema}

Schemas ==
    {Obj([a |-> n]) : n \in LeafNodes \cup ContainerNodes}
      \cup {Obj([a |-> n, b |-> Str("integer")]) : n \in LeafNodes \cup ContainerNodes}

ValidElem == Obj([c |-> Str("X"), d |-> Str("12")])
InvalidElem == Obj([c |-> Whole(5), d |-> Str("abc")])

SeqsUpTo(S, n) == UNION {[1..m -> S] : m \in 1..n}

JsonLeafVals ==
    {Null, Str(""), Str("abc"), Str("12"), Str("-5"), Str("2.5"), Str("-2.5"),
     Str("7x"), Str("2020-01-02"), Whole(5), Whole(0), Num(-25), Bool(TRUE),
     Bool(FALSE), Arr(<<Str("12")>>), EmptyObj, DateObj(0)}

JsonContainerVals ==
    {Null, Str(""), Str("ab"), Whole(5), Whole(0), Bool(FALSE),
     EmptyArr, Arr(<<Str("X")>>), EmptyObj, ValidElem, InvalidElem}
      \cup {Arr(s) : s \in SeqsUpTo({ValidElem, InvalidElem}, MaxItems)}

JsonValsFor(node) ==
    IF IsString(node) THEN JsonLeafVals ELSE JsonContainerVals

AttrValsFor(node) ==
    IF IsString(node) THEN {Null, Whole(3), Str("LA"), Str("12")}
    ELSE {Null, Arr(<<Str("a"), Str("b")>>),
          Obj([c |-> Str("NYC"), d |-> Whole(7)]),
          Arr(<<Obj([c |-> Str("NYC"), d |-> Whole(7)])>>)}

DefaultValsFor(node) ==
    IF IsString(node) THEN {Whole(10)}
    ELSE {Obj([c |-> Str("LA")]), Arr(<<Obj([c |-> Str("LA"), d |-> Whole(1)])>>)}

IgnoredValsFor(node) ==
    IF IsString(node) THEN {Bool(TRUE), Bool(FALSE), Whole(1)}
    ELSE {Bool(TRUE), Bool(FALSE), Obj([c |-> Bool(TRUE)]),
          Obj([c |-> Bool(TRUE), d |-> Bool(TRUE)])}

\* json as a whole: absent, null, without the key, or holding a value
JsonTop(node) ==
    {Undef, Null, EmptyObj}
      \cup {Obj([a |-> v]) : v \in JsonValsFor(node)}
      \cup {Obj([a |-> v, b |-> Str("-5")]) : v \in JsonValsFor(node)}

AttrsTop(node) ==
    {Undef, EmptyObj} \cup {Obj([a |-> v, b |-> Whole(4)]) : v \in AttrValsFor(node)}

DefaultsTop(node) ==
    {Undef, EmptyObj} \cup {Obj([a |-> v, b |-> Whole(9)]) : v \in DefaultValsFor(node)}

IgnoredTop(node) ==
    {Undef, Obj([b |-> Bool(TRUE)])} \cup {Obj([a |-> v]) : v \in IgnoredValsFor(node)}

\* Callers that hold separate instances of one stored document
NumCallers == 2
Callers == 1..NumCallers

\* No caller has touched the stored document
NoCallers ==
    /\ stored = Undef
    /\ locked = [i \in Callers |-> Undef]
    /\ lockPc = [i \in Callers |-> "idle"]
    /\ outcome = [i \in Callers |-> "none"]
    /\ resolvedLocks = 0

-----------------------------------------------------------------------------
(* Calls of buildAttributes *)

Init ==
    /\ schema \in Schemas
    /\ defaults \in DefaultsTop(schema.v["a"])
    /\ json \in JsonTop(schema.v["a"])
    /\ attrs \in AttrsTop(schema.v["a"])
    /\ ignoredAttrs \in IgnoredTop(schema.v["a"])
    /\ obj = Undef
    /\ obj2 = Undef
    /\ attributes = Undef
    /\ initialAttributes = Undef
    /\ modelClass = Undef
    /\ requestAttributes = Undef
    /\ changedFromRequest = Undef
    /\ previousFromRequest = Undef
    /\ response = Undef
    /\ calls = 0
    /\ pc = "start"
    /\ NoCallers

\* buildAttributes(schema, defaults, json, attrs, ignoredAttrs)
Build ==
    /\ pc = "start"
    /\ obj' = BuildAttributes(schema, defaults, json, attrs, ignoredAttrs)
    /\ pc' = "built"
    /\ UNCHANGED <<schema, defaults, json, attrs, ignoredAttrs, obj2>>
    /\ UNCHANGED instanceVars
    /\ UNCHANGED lockVars

\* buildAttributes again, on the tree it returned
Rebuild ==
    /\ pc = "built"
    /\ obj2' = BuildAttributes(schema, defaults, obj, attrs, ignoredAttrs)
    /\ pc' = "rebuilt"
    /\ UNCHANGED <<schema, defaults, json, attrs, ignoredAttrs, obj>>
    /\ UNCHANGED instanceVars
    /\ UNCHANGED lockVars

Next == Build \/ Rebuild

Spec == Init /\ [][Next]_vars

-----------------------------------------------------------------------------
(* The model instance: construction, fetch, setFromRequest, render *)

\* _.merge(object, source): source's values are written over object's, plain
\* objects and arrays merged recursively; undefined values are skipped
RECURSIVE Merge(_, _)
Merge(object, source) ==
    IF ~IsObject(object) \/ ~IsObject(source) THEN object
    ELSE IF source.t = "obj" /\ object.t = "obj"
    THEN Obj([k \in DOMAIN object.v \cup {j \in DOMAIN source.v : ~IsUndefined(source.v[j])} |->
                IF k \notin DOMAIN source.v \/ IsUndefined(source.v[k])
                THEN object.v[k]
                ELSE IF source.v[k].t = "obj"
                THEN Merge(IF Get(object, k).t = "obj" THEN object.v[k] ELSE EmptyObj,
                           source.v[k])
                ELSE IF source.v[k].t = "arr"
                THEN Merge(IF Get(object, k).t = "arr" THEN object.v[k] ELSE EmptyArr,
                           source.v[k])
                ELSE source.v[k]])
    ELSE IF source.t = "arr" /\ object.t = "arr"
    THEN Arr([i \in 1..(IF Len(object.v) > Len(source.v) THEN Len(object.v)
                        ELSE Len(source.v)) |->
                IF i > Len(source.v) \/ IsUndefined(source.v[i]) THEN object.v[i]
                ELSE IF source.v[i].t = "obj"
                THEN Merge(IF i <= Len(object.v) /\ object.v[i].t = "obj"
                           THEN object.v[i] ELSE EmptyObj, source.v[i])
                ELSE source.v[i]])
    ELSE object

\* combinedSchema (lines 70-74)
CombinedSchema(class) == Merge(class.schema, class.baseSchema)

\* parse (lines 92-108): a mongodb `create` answers with an array of one
\* document
Parse(class, resp) ==
    LET doc == IF IsArray(resp)
               THEN (IF Len(resp.v) > 0 THEN resp.v[1] ELSE Undef)
               ELSE resp
    IN BuildAttributes(CombinedSchema(class), class.defaults, doc, doc, Undef)

\* Backbone's set(attrs): every key of attrs is written over the current
\* attributes
BackboneSet(current, new) ==
    IF new.t # "obj" THEN current
    ELSE Obj([k \in DOMAIN current.v \cup DOMAIN new.v |->
                IF k \in DOMAIN new.v THEN new.v[k] ELSE current.v[k]])

\* Backbone's `changed` after set(attrs): the keys whose value differs from
\* the previous attributes
BackboneChanged(previous, new) ==
    IF new.t # "obj" THEN EmptyObj
    ELSE Obj([k \in {j \in DOMAIN new.v : Get(previous, j) # new.v[j]} |-> new.v[k]])

\* render (lines 353-374)
Render(class, current) ==
    IF IsEmpty(CombinedSchema(class)) THEN current
    ELSE BuildAttributes(CombinedSchema(class), class.defaults, current, current,
                         class.hiddenAttributes)

\* Most setFromRequest calls on one instance
MaxCalls == 2

NestedSchema == Obj([a |-> ElemSchema, b |-> Str("string")])
ListSchema == Obj([a |-> Arr(<<ElemSchema>>), b |-> Str("string")])
FlatSchema == Obj([a |-> Str("string"), b |-> Str("integer")])

ModelClasses ==
    { [schema |-> FlatSchema, baseSchema |-> Undef,
       defaults |-> Obj([b |-> Whole(1)]),
       readOnlyAttributes |-> Obj([b |-> Bool(TRUE)]),
       hiddenAttributes |-> Obj([a |-> Bool(TRUE)])],
      [schema |-> Obj([a |-> Str("string")]),
       baseSchema |-> Obj([b |-> Str("integer")]),
       defaults |-> Undef,
       readOnlyAttributes |-> Obj([a |-> Bool(TRUE)]),
       hiddenAttributes |-> Obj([b |-> Bool(TRUE)])],
      [schema |-> NestedSchema, baseSchema |-> Undef,
       defaults |-> Obj([a |-> Obj([c |-> Str("LA"), d |-> Whole(1)])]),
       readOnlyAttributes |-> Obj([a |-> Obj([d |-> Bool(TRUE)])]),
       hiddenAttributes |-> Obj([a |-> Obj([c |-> Bool(TRUE)])])],
      [schema |-> ListSchema, baseSchema |-> Undef,
       defaults |-> EmptyObj,
       readOnlyAttributes |-> Obj([a |-> Obj([d |-> Bool(TRUE)])]),
       hiddenAttributes |-> Obj([a |-> Obj([c |-> Bool(TRUE)])])],
      [schema |-> Undef, baseSchema |-> Undef,
       defaults |-> Obj([b |-> Whole(1)]),
       readOnlyAttributes |-> Obj([b |-> Bool(TRUE)]),
       hiddenAttributes |-> Obj([a |-> Bool(TRUE)])],
      [schema |-> Obj([a |-> Str("string"), b |-> Str("string")]),
       baseSchema |-> Obj([b |-> Str("integer")]),
       defaults |-> EmptyObj,
       readOnlyAttributes |-> EmptyObj,
       hiddenAttributes |-> EmptyObj],
      [schema |-> Undef,
       baseSchema |-> Obj([b |-> Str("integer")]),
       defaults |-> EmptyObj,
       readOnlyAttributes |-> EmptyObj,
       hiddenAttributes |-> EmptyObj] }

\* Stored documents
Docs ==
    {EmptyObj,
     Obj([a |-> Str("u1"), b |-> Whole(5)]),
     Obj([a |-> Obj([c |-> Str("NYC"), d |-> Whole(7)]), b |-> Str("u1")]),
     Obj([a |-> EmptyObj, b |-> Str("u1")]),
     Obj([a |-> Arr(<<Obj([c |-> Str("NYC"), d |-> Whole(7)])>>), b |-> Str("u1")]),
     Arr(<<Obj([a |-> Str("u2"), b |-> Str("12")])>>)}

\* Request bodies
Bodies ==
    {Undef, EmptyObj,
     Obj([a |-> Str("X")]),
     Obj([a |-> Str("X"), b |-> Str("12")]),
     Obj([b |-> Null]),
     Obj([a |-> Null]),
     Obj([a |-> EmptyObj]),
     Obj([a |-> EmptyArr]),
     Obj([a |-> Obj([c |-> Str("X")])]),
     Obj([a |-> Obj([c |-> Str("X"), d |-> Str("12")])]),
     Obj([a |-> Arr(<<Obj([c |-> Str("X")])>>)]),
     Obj([a |-> Arr(<<ValidElem, InvalidElem>>), b |-> Str("u2")])}

\* Attributes given to the constructor
ConstructorAttrs ==
    {EmptyObj,
     Obj([a |-> Str("u1")]),
     Obj([a |-> EmptyObj]),
     Obj([a |-> EmptyArr, b |-> Str("u2")])}

\* `_.defaults({}, attrs, defaults)`: the defaults fill the keys that attrs
\* leaves undefined
WithDefaults(given, dflts) ==
    IF dflts.t # "obj" THEN given
    ELSE Obj([k \in DOMAIN given.v \cup DOMAIN dflts.v |->
                IF IsUndefined(Get(given, k)) THEN dflts.v[k] ELSE given.v[k]])

\* `new Model(attrs)` (lines 76-81)
ModelInit ==
    /\ modelClass \in ModelClasses
    /\ attributes \in {WithDefaults(given, modelClass.defaults) :
                          given \in ConstructorAttrs}
    /\ initialAttributes = attributes
    /\ requestAttributes = EmptyObj
    /\ changedFromRequest = EmptyObj
    /\ previousFromRequest = EmptyObj
    /\ response = Undef
    /\ calls = 0
    /\ pc = "new"
    /\ schema = Undef
    /\ defaults = Undef
    /\ json = Undef
    /\ attrs = Undef
    /\ ignoredAttrs = Undef
    /\ obj = Undef
    /\ obj2 = Undef
    /\ NoCallers

\* fetch (lines 480-493): the stored document is parsed and set
Fetch(doc) ==
    /\ pc = "new"
    /\ attributes' = BackboneSet(attributes, Parse(modelClass, doc))
    /\ initialAttributes' = attributes'
    /\ pc' = "fetched"
    /\ UNCHANGED <<modelClass, requestAttributes, changedFromRequest,
                   previousFromRequest, response, calls>>
    /\ UNCHANGED callVars
    /\ UNCHANGED lockVars

\* setFromRequest(body) (lines 319-341)
SetFromRequest(body) ==
    /\ calls < MaxCalls
    /\ LET built == BuildAttributes(CombinedSchema(modelClass), modelClass.defaults,
                                    body, attributes, modelClass.readOnlyAttributes)
       IN /\ requestAttributes' = built
          /\ attributes' = BackboneSet(attributes, built)
          /\ changedFromRequest' = BackboneChanged(attributes, built)
          /\ previousFromRequest' = attributes
    /\ calls' = calls + 1
    /\ pc' = "set"
    /\ UNCHANGED <<initialAttributes, modelClass, response>>
    /\ UNCHANGED callVars
    /\ UNCHANGED lockVars

\* toResponse() / render()
ToResponse ==
    /\ response' = Render(modelClass, attributes)
    /\ pc' = "rendered"
    /\ UNCHANGED <<attributes, initialAttributes, modelClass, requestAttributes,
                   changedFromRequest, previousFromRequest, calls>>
    /\ UNCHANGED callVars
    /\ UNCHANGED lockVars

ModelNext ==
    \/ \E doc \in Docs : Fetch(doc)
    \/ \E body \in Bodies : SetFromRequest(body)
    \/ ToResponse

ModelSpec == ModelInit /\ [][ModelNext]_vars

-----------------------------------------------------------------------------
(* lock() and unlock() on instances of one stored document *)

\* fetch: the instance takes the stored document's attributes
LoadInstance(i) ==
    /\ lockPc[i] = "idle"
    /\ locked' = [locked EXCEPT ![i] = stored]
    /\ UNCHANGED <<stored, lockPc, outcome, resolvedLocks>>
    /\ UNCHANGED <<callVars, instanceVars, pc>>

\* lock() up to the call of save() (lines 529-537): rejects when the
\* instance's own `locked` is truthy, else sets it and starts a save
LockCall(i) ==
    /\ lockPc[i] = "idle"
    /\ IF Truthy(locked[i])
       THEN /\ outcome' = [outcome EXCEPT ![i] = "rejected"]
            /\ UNCHANGED <<locked, lockPc>>
       ELSE /\ locked' = [locked EXCEPT ![i] = Bool(TRUE)]
            /\ lockPc' = [lockPc EXCEPT ![i] = "locking"]
            /\ outcome' = [outcome EXCEPT ![i] = "pending"]
    /\ UNCHANGED <<stored, resolvedLocks>>
    /\ UNCHANGED <<callVars, instanceVars, pc>>

\* unlock() up to the call of save() (lines 539-546): resolves at once when
\* the instance's own `locked` is falsy, else clears it and starts a save
UnlockCall(i) ==
    /\ lockPc[i] = "idle"
    /\ IF ~Truthy(locked[i])
       THEN UNCHANGED <<locked, lockPc>>
       ELSE /\ locked' = [locked EXCEPT ![i] = Bool(FALSE)]
            /\ lockPc' = [lockPc EXCEPT ![i] = "unlocking"]
    /\ UNCHANGED <<stored, outcome, resolvedLocks>>
    /\ UNCHANGED <<callVars, instanceVars, pc>>

\* save() of a started lock() or unlock() completes (lines 498-525, update
\* at lines 561-585): the stored document is replaced by the instance's
\* attributes, the query naming the document by its id only
SaveDone(i) ==
    /\ lockPc[i] # "idle"
    /\ stored' = locked[i]
    /\ lockPc' = [lockPc EXCEPT ![i] = "idle"]
    /\ IF lockPc[i] = "locking"
       THEN /\ outcome' = [outcome EXCEPT ![i] = "resolved"]
            /\ resolvedLocks' = resolvedLocks + 1
       ELSE /\ outcome' = [outcome EXCEPT ![i] = "none"]
            /\ resolvedLocks' = 0
    /\ UNCHANGED locked
    /\ UNCHANGED <<callVars, instanceVars, pc>>

LockInit ==
    /\ stored = Undef
    /\ locked = [i \in Callers |-> Undef]
    /\ lockPc = [i \in Callers |-> "idle"]
    /\ outcome = [i \in Callers |-> "none"]
    /\ resolvedLocks = 0
    /\ schema = Undef
    /\ defaults = Undef
    /\ json = Undef
    /\ attrs = Undef
    /\ ignoredAttrs = Undef
    /\ obj = Undef
    /\ obj2 = Undef
    /\ attributes = Undef
    /\ initialAttributes = Undef
    /\ modelClass = Undef
    /\ requestAttributes = Undef
    /\ changedFromRequest = Undef
    /\ previousFromRequest = Undef
    /\ response = Undef
    /\ calls = 0
    /\ pc = "lock"

LockNext ==
    \E i \in Callers :
      \/ LoadInstance(i)
      \/ LockCall(i)
      \/ UnlockCall(i)
      \/ SaveDone(i)

LockSpec == LockInit /\ [][LockNext]_vars

-----------------------------------------------------------------------------
(* What the claims speak of *)

\* x[key] as the claims read it: undefined when x is absent or lacks key
Field(x, key) ==
    IF x.t = "obj" /\ key \in DOMAIN x.v THEN x.v[key] ELSE Undef

Defined(x) == x # Undef

\* ignored[key] === true
Masked(key) == Field(ignoredAttrs, key) = Bool(TRUE)

\* "attrs[key] if it is defined, else defaults[key] if it is defined,
\*  else zero"
Chain(key, zero) ==
    IF Defined(Field(attrs, key)) THEN Field(attrs, key)
    ELSE IF Defined(Field(defaults, key)) THEN Field(defaults, key)
    ELSE zero

\* "defaults[key] if it is defined, else zero"
DefaultOr(key, zero) ==
    IF Defined(Field(defaults, key)) THEN Field(defaults, key) ELSE zero

\* The zero value of a schema node
ZeroOf(node) ==
    CASE node.t = "str" /\ node.v \in {"integer", "uinteger"} -> Whole(0)
      [] node.t = "str" /\ node.v \in {"float", "ufloat"} -> Num(0)
      [] node.t = "str" /\ node.v = "boolean" -> Bool(FALSE)
      [] node.t = "str" -> Null
      [] node.t = "arr" -> EmptyArr
      [] OTHER -> EmptyObj

TestedTags == {"integer", "uinteger", "float", "ufloat", "boolean", "id",
               "string", "timestamp", "date"}

ResetTags == {"integer", "uinteger", "float", "ufloat", "timestamp"}

\* json[key] fails the validity test of the tag
FailsTest(tag, v) ==
    CASE tag \in {"integer", "uinteger"} -> IsNaN(ParseInt(v))
      [] tag \in {"float", "ufloat"} -> IsNaN(ParseFloat(v))
      [] tag = "boolean" -> v.t # "bool"
      [] tag \in {"id", "string"} -> v.t \notin {"str", "null"}
      [] tag = "timestamp" -> v.t \notin {"num", "null"}
      [] tag = "date" ->
           ~(v.t \in {"date", "null"} \/ IsValidISO8601String(v))
      [] OTHER -> FALSE

Called == pc # "start"

\* C1: the keys of the returned tree are exactly the schema keys that
\* `ignored` does not mark true.
C1_KeySet ==
    Called => /\ obj.t = "obj"
              /\ DOMAIN obj.v = {k \in DOMAIN schema.v : ~Masked(k)}

C1_Witness ==
    /\ pc = "built"
    /\ DOMAIN schema.v = {"a", "b"}
    /\ IsEmptyContainer(schema.v["a"])
    /\ Masked("b")
    /\ DOMAIN obj.v = {"a"}

\* C2: a key that `ignored` marks true is absent from the returned tree,
\* whatever json, attrs and defaults hold for it.
C2_IgnoredAbsent ==
    Called => \A k \in DOMAIN schema.v : Masked(k) => k \notin DOMAIN obj.v

C2_Witness ==
    /\ pc = "built"
    /\ Masked("a")
    /\ Defined(Field(json, "a"))
    /\ Defined(Field(attrs, "a"))
    /\ Defined(Field(defaults, "a"))
    /\ "a" \notin DOMAIN obj.v

\* C3: when json, or json[key], is null or undefined, the output at every
\* emitted key is attrs[key] if defined, else defaults[key] if defined,
\* else the zero value of the key's schema node.
C3_MissingJsonFallsBack ==
    Called =>
      \A k \in DOMAIN obj.v :
        (/\ Field(json, k).t \in {"undef", "null"}
         /\ schema.v[k] # Str("model"))
          => obj.v[k] = Chain(k, ZeroOf(schema.v[k]))

\* C5: for a tag with a validity test, when json[key] is present and fails
\* the test (the empty string of the numeric and timestamp tags aside) the output is
\* attrs[key] if defined, else defaults[key] if defined, else the tag's
\* zero value, also when attrs or defaults is absent as a whole.
C5_InvalidLeafFallsBack ==
    Called =>
      \A k \in DOMAIN obj.v :
        (/\ schema.v[k].t = "str"
         /\ schema.v[k].v \in TestedTags
         /\ Defined(Field(json, k))
         /\ FailsTest(schema.v[k].v, Field(json, k))
         /\ ~(schema.v[k].v \in ResetTags /\ Field(json, k) = Str("")))
          => obj.v[k] = Chain(k, ZeroOf(schema.v[k]))

\* C6: for the numeric and timestamp tags, when json[key] is the empty
\* string the output is defaults[key] if defined, else the tag's zero value.
C6_EmptyStringResets ==
    Called =>
      \A k \in DOMAIN obj.v :
        (/\ schema.v[k].t = "str"
         /\ schema.v[k].v \in ResetTags
         /\ Field(json, k) = Str(""))
          => obj.v[k] = DefaultOr(k, ZeroOf(schema.v[k]))

\* A schema node that declares an array of scalars
ScalarArrayNode(node) ==
    /\ node.t = "arr"
    /\ Len(node.v) > 0
    /\ (node.v[1].t = "str" \/ node.v[1] = EmptyObj \/ node.v[1] = EmptyArr)

\* C7 as stated: for an array of scalars, an empty json[key] falls through
\* to attrs[key].
C7_EmptyArrayFallsToAttrs ==
    Called =>
      \A k \in DOMAIN obj.v :
        (ScalarArrayNode(schema.v[k]) /\ Field(json, k) = EmptyArr)
          => obj.v[k] = Field(attrs, k)

\* C7 as amended: for an array of scalars, an empty json[key] is kept: the
\* output is the empty sequence, whatever attrs[key] holds.
C7_EmptyArrayKept ==
    Called =>
      \A k \in DOMAIN obj.v :
        (ScalarArrayNode(schema.v[k]) /\ Field(json, k) = EmptyArr)
          => obj.v[k] = EmptyArr

C7_Witness ==
    /\ pc = "built"
    /\ schema.v["a"] = Arr(<<Str("string")>>)
    /\ Field(json, "a") = EmptyArr
    /\ Field(attrs, "a") = Arr(<<Str("a"), Str("b")>>)
    /\ "a" \in DOMAIN obj.v
    /\ obj.v["a"] = EmptyArr

\* Every field of a json element is valid for its tag in ElemSchema
ElemFieldsValid(e) ==
    /\ e.t = "obj"
    /\ Field(e, "c").t \in {"str", "null"}
    /\ Field(e, "d") # Str("")
    /\ ~IsNaN(ParseInt(Field(e, "d")))

\* C8: for an array-of-objects key whose json[key] is a non-empty sequence,
\* the output is a sequence of the same length whose i-th element is
\* buildAttributes(E, defaults[key], json[key][i], attrs[key], ignored[key]);
\* when every element field is valid the output at the key is the same for
\* every attrs and defaults.
C8_ArrayOfObjects ==
    Called =>
      \A k \in DOMAIN obj.v :
        (/\ schema.v[k] = Arr(<<ElemSchema>>)
         /\ Field(json, k).t = "arr"
         /\ Len(Field(json, k).v) > 0)
          => LET src == Field(json, k).v
                 out == obj.v[k]
             IN /\ out.t = "arr"
                /\ Len(out.v) = Len(src)
                /\ \A i \in 1..Len(src) :
                     out.v[i] = BuildAttributes(ElemSchema, Field(defaults, k),
                                                src[i], Field(attrs, k),
                                                Field(ignoredAttrs, k))
                /\ (\A i \in 1..Len(src) : ElemFieldsValid(src[i]))
                     => \A a2 \in AttrsTop(schema.v[k]), d2 \in DefaultsTop(schema.v[k]) :
                          BuildAttributes(schema, d2, json, a2, ignoredAttrs).v[k] = out

C8_Witness ==
    /\ pc = "built"
    /\ schema.v["a"] = Arr(<<ElemSchema>>)
    /\ Field(json, "a") = Arr(<<ValidElem, InvalidElem>>)
    /\ Defined(Field(attrs, "a"))
    /\ Defined(Field(defaults, "a"))
    /\ "a" \in DOMAIN obj.v
    /\ Len(obj.v["a"].v) = MaxItems
    /\ obj.v["a"].v[1] = Obj([c |-> Str("X"), d |-> Whole(12)])

\* C4 as stated: building the returned tree again returns it unchanged,
\* for every schema, defaults, json, attrs and mask.
C4_Idempotent == pc = "rebuilt" => obj2 = obj

\* v is valid for a leaf tag: it passes the tag's validity test and is not
\* the empty string that resets the numeric and timestamp tags
LeafValid(tag, v) ==
    /\ ~FailsTest(tag, v)
    /\ ~(tag \in ResetTags /\ v = Str(""))

\* e is an object whose fields, those the mask suppresses aside, are valid
\* for their tags in the nested schema nested
FieldsValid(nested, e, mask) ==
    /\ e.t = "obj"
    /\ \A f \in DOMAIN nested.v :
         Field(mask, f) # Bool(TRUE) => LeafValid(nested.v[f].v, Field(e, f))

\* v is valid for a schema node under the node's mask
ValidFor(node, v, mask) ==
    CASE node.t = "str" -> LeafValid(node.v, v)
      [] node = EmptyArr \/ node = EmptyObj -> TRUE
      [] ScalarArrayNode(node) -> v.t = "arr"
      [] node.t = "arr" ->
           /\ v.t = "arr"
           /\ Len(v.v) > 0
           /\ \A i \in 1..Len(v.v) : FieldsValid(node.v[1], v.v[i], mask)
      [] OTHER ->
           /\ FieldsValid(node, v, mask)
           /\ \E f \in DOMAIN node.v : Field(mask, f) # Bool(TRUE)

\* json is valid for the schema under the mask
JsonValid ==
    /\ json.t = "obj"
    /\ \A k \in DOMAIN schema.v :
         ~Masked(k) => ValidFor(schema.v[k], Field(json, k), Field(ignoredAttrs, k))

\* C4 as amended: when json is valid for the schema under the mask,
\* building the returned tree again returns it unchanged, for every
\* defaults and attrs.
C4_IdempotentOnValidJson == (pc = "rebuilt" /\ JsonValid) => obj2 = obj

C4_Witness ==
    /\ pc = "rebuilt"
    /\ JsonValid
    /\ schema.v["a"] = Arr(<<ElemSchema>>)
    /\ "b" \in DOMAIN schema.v
    /\ ~Masked("a")
    /\ ~Masked("b")
    /\ Len(Field(json, "a").v) = MaxItems
    /\ Defined(Field(attrs, "a"))
    /\ Defined(Field(defaults, "a"))
    /\ obj2 = obj
    /\ obj.v["b"] = Whole(-5)

\* The value an attribute tree holds at field f under key k: the field of
\* a nested object, or the fields of the objects of a list
PathValue(tree, k, f) ==
    LET sub == Field(tree, k)
    IN CASE sub.t = "obj" -> Field(sub, f)
         [] sub.t = "arr" -> Arr([i \in 1..Len(sub.v) |-> Field(sub.v[i], f)])
         [] OTHER -> Undef

\* C9: after any sequence of setFromRequest calls, every attribute that
\* readOnlyAttributes marks true, at the top level or in a nested mask,
\* holds the value it had before the sequence.
C9_ReadOnlyKept ==
    LET mask == modelClass.readOnlyAttributes
    IN \A k \in DOMAIN mask.v :
         /\ mask.v[k] = Bool(TRUE)
              => Field(attributes, k) = Field(initialAttributes, k)
         /\ mask.v[k].t = "obj"
              => \A f \in DOMAIN mask.v[k].v :
                   mask.v[k].v[f] = Bool(TRUE)
                     => PathValue(attributes, k, f) = PathValue(initialAttributes, k, f)

\* tree holds no key that mask marks true, at the top level or nested
NoMarkedKey(tree, mask) ==
    \A k \in DOMAIN mask.v :
      /\ mask.v[k] = Bool(TRUE) => (tree.t = "obj" => k \notin DOMAIN tree.v)
      /\ mask.v[k].t = "obj"
           => \A f \in DOMAIN mask.v[k].v :
                mask.v[k].v[f] = Bool(TRUE)
                  => LET sub == Field(tree, k)
                     IN /\ sub.t = "obj" => f \notin DOMAIN sub.v
                        /\ sub.t = "arr"
                             => \A i \in 1..Len(sub.v) :
                                  sub.v[i].t = "obj" => f \notin DOMAIN sub.v[i].v

\* C10: the value render() returns holds no key that hiddenAttributes
\* marks true.
C10_HiddenNotRendered ==
    pc = "rendered" => NoMarkedKey(response, modelClass.hiddenAttributes)

\* A schema node that declares a nested object
ObjectNode(node) == node.t = "obj" /\ node # EmptyObj

\* A schema node that declares an array of objects
ObjectArrayNode(node) ==
    /\ node.t = "arr"
    /\ Len(node.v) > 0
    /\ ObjectNode(node.v[1])

\* The keys of a nested schema that the nested mask does not mark true
NestedKeys(nested, mask) ==
    {f \in DOMAIN nested.v : Field(mask, f) # Bool(TRUE)}

\* C11: under every key declared as a nested object or an array of objects,
\* each mapping of the returned tree has exactly the keys of the nested
\* schema that the nested mask does not mark true, for all json, attrs and
\* defaults.
C11_NestedMirror ==
    Called =>
      \A k \in DOMAIN obj.v :
        /\ ObjectNode(schema.v[k])
             => (obj.v[k].t = "obj"
                   => DOMAIN obj.v[k].v
                        = NestedKeys(schema.v[k], Field(ignoredAttrs, k)))
        /\ ObjectArrayNode(schema.v[k])
             => (obj.v[k].t = "arr"
                   => \A i \in 1..Len(obj.v[k].v) :
                        obj.v[k].v[i].t = "obj"
                          => DOMAIN obj.v[k].v[i].v
                               = NestedKeys(schema.v[k].v[1], Field(ignoredAttrs, k)))

\* The empty value of the container kind an empty-container marker declares
EmptyOfKind(node) == IF node.t = "arr" THEN EmptyArr ELSE EmptyObj

\* C12: for a key whose schema value is the marker [] or {}, the output is
\* attrs[key] if defined, else defaults[key] if defined, else the empty
\* sequence for [] and the empty mapping for {} (stated for attrs and
\* defaults that are objects).
C12_EmptyContainerMarker ==
    Called =>
      \A k \in DOMAIN obj.v :
        (/\ schema.v[k] = EmptyArr \/ schema.v[k] = EmptyObj
         /\ attrs.t = "obj"
         /\ defaults.t = "obj")
          => obj.v[k] = Chain(k, EmptyOfKind(schema.v[k]))

\* json[key] is a malformed container for the node: not an object where a
\* nested object is declared, not an array where an array of objects is
\* declared (null and undefined are missing, not malformed)
Malformed(node, v) ==
    /\ v.t \notin {"undef", "null"}
    /\ \/ ObjectNode(node) /\ v.t # "obj"
       \/ ObjectArrayNode(node) /\ v.t # "arr"

\* C13: for a key declared as a nested object or an array of objects, a
\* malformed json[key] is treated as empty: the output is defaults[key] if
\* defined, else the empty mapping / empty sequence (stated for defaults
\* that is an object).
C13_MalformedContainerIsEmpty ==
    Called =>
      \A k \in DOMAIN obj.v :
        (Malformed(schema.v[k], Field(json, k)) /\ defaults.t = "obj")
          => obj.v[k] = DefaultOr(k, ZeroOf(schema.v[k]))

\* max(n, 0) of a number
ClampedAtZero(n) == IF n.v < 0 THEN Num(0) ELSE n

\* C15: for uinteger (resp. ufloat) a json[key] that parses to a number n
\* yields max(n, 0): "-5" as uinteger yields 0, -2.5 as ufloat yields 0.0,
\* and a parsed value that is not negative is returned unchanged.
C15_UnsignedClamped ==
    Called =>
      \A k \in DOMAIN obj.v :
        LET v == Field(json, k)
        IN /\ (schema.v[k] = Str("uinteger") /\ v # Str("") /\ ~IsNaN(ParseInt(v)))
                => /\ obj.v[k] = ClampedAtZero(ParseInt(v))
                   /\ v = Str("-5") => obj.v[k] = Whole(0)
                   /\ v = Str("12") => obj.v[k] = Whole(12)
                   /\ v = Whole(5) => obj.v[k] = Whole(5)
           /\ (schema.v[k] = Str("ufloat") /\ v # Str("") /\ ~IsNaN(ParseFloat(v)))
                => /\ obj.v[k] = ClampedAtZero(ParseFloat(v))
                   /\ v \in {Num(-25), Str("-2.5"), Str("-5")} => obj.v[k] = Num(0)
                   /\ v = Str("2.5") => obj.v[k] = Num(25)

C15_Witness ==
    /\ pc = "built"
    /\ schema.v["a"] = Str("uinteger")
    /\ Field(json, "a") = Str("-5")
    /\ Field(attrs, "a") = Whole(3)
    /\ "a" \in DOMAIN obj.v
    /\ obj.v["a"] = Whole(0)

\* The keys of a resolved schema: none when it resolves to undefined
KeysOf(x) == IF x.t = "obj" THEN DOMAIN x.v ELSE {}

\* C14: combinedSchema() holds the model-specific entry for every key of the
\* model-specific schema, and the base entry for every key of the base
\* schema that the model-specific schema lacks, and no other key.
C14_SchemaOverBase ==
    modelClass # Undef =>
      LET own == modelClass.schema
          base == modelClass.baseSchema
          combined == CombinedSchema(modelClass)
      IN /\ KeysOf(combined) = KeysOf(own) \cup KeysOf(base)
         /\ \A k \in KeysOf(own) : Field(combined, k) = own.v[k]
         /\ \A k \in KeysOf(base) \ KeysOf(own) : Field(combined, k) = base.v[k]

\* C16: at most one lock() resolves between two unlocks of the stored
\* document, and a rejected lock() has started no save.
C16_LockMutualExclusion ==
    /\ resolvedLocks <= 1
    /\ \A i \in Callers : outcome[i] = "rejected" => lockPc[i] = "idle"

=============================================================================
